---------------------------- MODULE Spec2Model ----------------------------
(***************************************************************************)
(* VeracodeXMLParser (dojo/tools/veracode/xml_parser.py): get_findings     *)
(* walks a Veracode Detailed XML report and returns Finding records.       *)
(*                                                                         *)
(* The parsed document is a tree of nodes.  A node is a record              *)
(*   [attrib |-> <function from the attribute names present to values>,    *)
(*    ...children, in document order...]                                   *)
(* so that  name \in DOMAIN node.attrib  is Python's  name in node.attrib  *)
(* and a read of an absent attribute through attrib[...] is a KeyError.    *)
(*                                                                         *)
(* Strings on which the parser works character by character (lower(),      *)
(* replace(), index(), slicing, the in operator) are sequences of           *)
(* one-character strings; every other string is atomic.  A datetime is a   *)
(* tuple <<year, month, day, hour, minute, second>>; Python's None is <<>>.*)
(***************************************************************************)
EXTENDS Integers, Sequences, FiniteSets, TLC

VARIABLES
    report,           \* root node of the parsed document (input)
    test,             \* the Test passed in by the caller (input)
    USE_FIRST_SEEN,   \* settings.USE_FIRST_SEEN (input)
    pc,               \* position of get_findings
    ci,               \* index of the current category_node
    si,               \* index into the category's static flaw nodes
    di,               \* index into the category's dynamic flaw nodes
    ki,               \* index of the current component
    vi,               \* index into the component's vulnerability nodes
    app_id,           \* local: root.attrib["app_id"]
    report_date,      \* local: parsed root.attrib["last_update_time"]
    mitigation_text,  \* local: the current category's mitigation text
    library,          \* local: the current component's library name
    version,          \* local: the current component's version
    dupes,            \* local: the dict, as its (key, value) items in insertion order
    uuid_calls,       \* number of uuid.uuid4() calls made so far
    converted,        \* history: the nodes handed to a conversion, in call order
    exc,              \* the exception get_findings raised ("" while none)
    result            \* the list get_findings returned (<<>> until it returns)

vars ==
    <<report, test, USE_FIRST_SEEN, pc, ci, si, di, ki, vi, app_id, report_date,
      mitigation_text, library, version, dupes, uuid_calls, converted, exc, result>>

None ==
    <<>>

NoException ==
    ""

-----------------------------------------------------------------------------
(* Bounds of the explored inputs.                                          *)

\* Flaw and vulnerability nodes in one document of the structural family.
MaxNodes ==
    3

\* Mitigation-history children of one flaw or vulnerability node.
MaxMitigations ==
    2

\* Chunks concatenated into one description attribute.
MaxChunks ==
    3

-----------------------------------------------------------------------------
(* String literals of the parser.                                          *)

S_accepted ==
    <<"a", "c", "c", "e", "p", "t", "e", "d">>
S_fixed ==
    <<"f", "i", "x", "e", "d">>
S_false_positive ==
    <<"f", "a", "l", "s", "e", " ", "p", "o", "s", "i", "t", "i", "v", "e">>
S_falsepositive ==
    <<"f", "a", "l", "s", "e", "p", "o", "s", "i", "t", "i", "v", "e">>
S_true ==
    <<"t", "r", "u", "e">>
S_PeriodSpace ==
    <<".", " ">>
S_PeriodNewline ==
    <<".", "\n">>
S_References ==
    <<"R", "e", "f", "e", "r", "e", "n", "c", "e", "s", ":">>
S_ParenTwoSpaces ==
    <<")", " ", " ">>
S_ParenNewline ==
    <<")", "\n">>
S_None ==
    <<"N", "o", "n", "e">>

DATE_FORMAT ==
    "%Y-%m-%d %H:%M:%S %Z"

-----------------------------------------------------------------------------
(* Python string operations on sequences of characters.                    *)

\* str.lower() on one character
LowerChar(c) ==
    CASE c = "A" -> "a" [] c = "B" -> "b" [] c = "C" -> "c" [] c = "D" -> "d"
      [] c = "E" -> "e" [] c = "F" -> "f" [] c = "G" -> "g" [] c = "H" -> "h"
      [] c = "I" -> "i" [] c = "J" -> "j" [] c = "K" -> "k" [] c = "L" -> "l"
      [] c = "M" -> "m" [] c = "N" -> "n" [] c = "O" -> "o" [] c = "P" -> "p"
      [] c = "Q" -> "q" [] c = "R" -> "r" [] c = "S" -> "s" [] c = "T" -> "t"
      [] c = "U" -> "u" [] c = "V" -> "v" [] c = "W" -> "w" [] c = "X" -> "x"
      [] c = "Y" -> "y" [] c = "Z" -> "z" [] OTHER -> c

\* s.lower()
Lower(s) ==
    [i \in 1..Len(s) |-> LowerChar(s[i])]

\* s.startswith(prefix)
StartsWith(s, prefix) ==
    /\ Len(prefix) <= Len(s)
    /\ SubSeq(s, 1, Len(prefix)) = prefix

\* s.find(sub) as a 0-based offset, -1 when sub does not occur
Find(s, sub) ==
    LET hits == {i \in 0..(Len(s) - Len(sub)) : SubSeq(s, i + 1, i + Len(sub)) = sub}
    IN  IF hits = {} THEN -1 ELSE CHOOSE i \in hits : \A j \in hits : i <= j

\* sub in s
Contains(s, sub) ==
    Find(s, sub) >= 0

\* s[start:] with a 0-based, non-negative start
SliceFrom(s, start) ==
    SubSeq(s, start + 1, Len(s))

\* s.replace(old, new): non-overlapping occurrences, leftmost first
RECURSIVE Replace(_, _, _)
Replace(s, old, new) ==
    IF Len(s) < Len(old) THEN s
    ELSE IF StartsWith(s, old)
         THEN new \o Replace(SliceFrom(s, Len(old)), old, new)
         ELSE <<Head(s)>> \o Replace(Tail(s), old, new)

\* int(s) for the attribute values of the explored documents; any other string is
\* a ValueError (ok = FALSE)
IntOf(s) ==
    CASE s = "0" -> [ok |-> TRUE, value |-> 0] [] s = "1" -> [ok |-> TRUE, value |-> 1]
      [] s = "2" -> [ok |-> TRUE, value |-> 2] [] s = "3" -> [ok |-> TRUE, value |-> 3]
      [] s = "4" -> [ok |-> TRUE, value |-> 4] [] s = "5" -> [ok |-> TRUE, value |-> 5]
      [] s = "9" -> [ok |-> TRUE, value |-> 9] [] s = "10" -> [ok |-> TRUE, value |-> 10]
      [] s = "79" -> [ok |-> TRUE, value |-> 79] [] s = "89" -> [ok |-> TRUE, value |-> 89]
      [] OTHER -> [ok |-> FALSE, value |-> 0]

\* datetime.strptime(s, DATE_FORMAT): the strings of the explored documents that
\* match the format, with the datetime each denotes; any other string is a ValueError
StrpTime(s, format) ==
    CASE format # DATE_FORMAT -> [ok |-> FALSE, value |-> None]
      [] s = "2024-01-15 00:00:00 UTC" -> [ok |-> TRUE, value |-> <<2024, 1, 15, 0, 0, 0>>]
      [] s = "2023-11-02 10:30:00 UTC" -> [ok |-> TRUE, value |-> <<2023, 11, 2, 10, 30, 0>>]
      [] s = "2022-03-09 23:59:59 GMT" -> [ok |-> TRUE, value |-> <<2022, 3, 9, 23, 59, 59>>]
      [] OTHER -> [ok |-> FALSE, value |-> None]

-----------------------------------------------------------------------------
(* The Finding record and the conversions of one node.  A conversion       *)
(* returns [exc |-> the exception it raised, or NoException,               *)
(*          finding |-> the Finding it built].                             *)

vc_severity_mapping ==
    <<"Info", "Low", "Medium", "High", "Critical">>

\* Finding(): the fields the parser may assign, before it assigns any.  date = None
\* stands for "not assigned by the parser": the value is whatever Finding() chose,
\* which cannot depend on the Test that is attached afterwards.
FindingDefaults ==
    [ test |-> None, mitigation |-> None, static_finding |-> FALSE,
      dynamic_finding |-> FALSE, unique_id_from_tool |-> None, severity |-> "",
      cwe |-> None, description |-> None, references |-> None, date |-> None,
      is_mitigated |-> FALSE, mitigated |-> None, active |-> TRUE, false_p |-> FALSE,
      line |-> None, file_path |-> None, unsaved_endpoints |-> None,
      component_name |-> None, component_version |-> None,
      unsaved_vulnerability_ids |-> None, unsaved_tags |-> None ]

\* the first exception of a sequence of steps run in order
RECURSIVE FirstException(_)
FirstException(steps) ==
    IF steps = <<>> THEN NoException
    ELSE IF Head(steps) # NoException THEN Head(steps)
         ELSE FirstException(Tail(steps))

\* xml_node.attrib[name] raises KeyError when the attribute is absent
KeyError(xml_node, name) ==
    IF name \in DOMAIN xml_node.attrib THEN NoException ELSE "KeyError"

\* int(xml_node.attrib[name])
IntAttribError(xml_node, name) ==
    IF name \notin DOMAIN xml_node.attrib THEN "KeyError"
    ELSE IF IntOf(xml_node.attrib[name]).ok THEN NoException ELSE "ValueError"

XmlFlawToUniqueId(app, xml_node) ==
    <<"app-", app, "_issue-", xml_node.attrib.issueid>>

XmlFlawToSeverity(xml_node) ==
    LET code == IntOf(xml_node.attrib.severity).value
    IN  IF code \in DOMAIN vc_severity_mapping THEN vc_severity_mapping[code] ELSE "Info"

\* description = xml_node.attrib["description"].replace(". ", ".\n")
FlawDescription(xml_node) ==
    Replace(xml_node.attrib.description, S_PeriodSpace, S_PeriodNewline)

\* (variant) the slice starts right after the literal "References:"
FlawReferences_FromLiteralEnd(description) ==
    IF Contains(description, S_References)
    THEN Replace(SliceFrom(description, Find(description, S_References) + 11),
                 S_ParenTwoSpaces, S_ParenNewline)
    ELSE S_None

\* references, before the module/type/issue-id trailer is appended
FlawReferences(description) ==
    IF Contains(description, S_References)
    THEN Replace(SliceFrom(description, Find(description, S_References) + 13),
                 S_ParenTwoSpaces, S_ParenNewline)
    ELSE S_None

ReferencesTrailer(xml_node) ==
    << "\n\nVulnerable Module: ", xml_node.attrib.module,
       "\nType: ", xml_node.attrib.type,
       "\nVeracode issue ID: ", xml_node.attrib.issueid >>

\* the try/except block that picks the finding's date; current is finding.date
\* before the block
FlawDate(xml_node, test_, use_first_seen, current) ==
    LET name == IF use_first_seen THEN "date_first_occurrence"
                                  ELSE "date_last_occurrence"
    IN  IF name \notin DOMAIN xml_node.attrib THEN current          \* get() gave None
        ELSE IF xml_node.attrib[name] = "" THEN current              \* falsy string
        ELSE LET parsed == StrpTime(xml_node.attrib[name], DATE_FORMAT)
             IN  IF parsed.ok THEN parsed.value ELSE test_.target_start

\* (variant) the loop keeps the date of the first child
RECURSIVE MitigationLoop_FirstWins(_, _, _)
MitigationLoop_FirstWins(mitigations, i, acc) ==
    IF i > Len(mitigations) THEN acc
    ELSE IF "date" \notin DOMAIN mitigations[i].attrib
         THEN [exc |-> "KeyError", is_mitigated |-> TRUE, mitigated_date |-> acc.mitigated_date]
         ELSE LET parsed == StrpTime(mitigations[i].attrib.date, DATE_FORMAT)
              IN  IF ~parsed.ok
                  THEN [exc |-> "ValueError", is_mitigated |-> TRUE,
                        mitigated_date |-> acc.mitigated_date]
                  ELSE MitigationLoop_FirstWins(mitigations, i + 1,
                           [exc |-> NoException, is_mitigated |-> TRUE,
                            mitigated_date |-> IF acc.is_mitigated THEN acc.mitigated_date
                                               ELSE parsed.value])

\* for mitigation in xml_node.findall("x:mitigations/x:mitigation"): from child i on,
\* with the loop's variables so far in acc
RECURSIVE MitigationLoop(_, _, _)
MitigationLoop(mitigations, i, acc) ==
    IF i > Len(mitigations) THEN acc
    ELSE IF "date" \notin DOMAIN mitigations[i].attrib
         THEN [exc |-> "KeyError", is_mitigated |-> TRUE, mitigated_date |-> acc.mitigated_date]
         ELSE LET parsed == StrpTime(mitigations[i].attrib.date, DATE_FORMAT)
              IN  IF ~parsed.ok
                  THEN [exc |-> "ValueError", is_mitigated |-> TRUE,
                        mitigated_date |-> acc.mitigated_date]
                  ELSE MitigationLoop(mitigations, i + 1,
                           [exc |-> NoException, is_mitigated |-> TRUE,
                            mitigated_date |-> parsed.value])

NotMitigated ==
    [exc |-> NoException, is_mitigated |-> FALSE, mitigated_date |-> None]

\* (variant) the statuses are compared without lower()
FlawMitigation_CaseSensitive(xml_node) ==
    IF /\ "mitigation_status" \in DOMAIN xml_node.attrib
       /\ xml_node.attrib.mitigation_status = S_accepted
    THEN IF /\ "remediation_status" \in DOMAIN xml_node.attrib
            /\ xml_node.attrib.remediation_status = S_fixed
         THEN [NotMitigated EXCEPT !.is_mitigated = TRUE]
         ELSE MitigationLoop(xml_node.mitigations, 1, NotMitigated)
    ELSE NotMitigated

\* is_mitigated and mitigated_date of a SAST/DAST flaw
FlawMitigation(xml_node) ==
    IF /\ "mitigation_status" \in DOMAIN xml_node.attrib
       /\ Lower(xml_node.attrib.mitigation_status) = S_accepted
    THEN IF /\ "remediation_status" \in DOMAIN xml_node.attrib
            /\ Lower(xml_node.attrib.remediation_status) = S_fixed
         THEN [NotMitigated EXCEPT !.is_mitigated = TRUE]
         ELSE MitigationLoop(xml_node.mitigations, 1, NotMitigated)
    ELSE NotMitigated

\* (variant) the remediation_status is looked at whether or not the flaw is mitigated
FlawFalsePositive_Unguarded(xml_node, is_mitigated) ==
    IF "remediation_status" \notin DOMAIN xml_node.attrib
    THEN [exc |-> IF is_mitigated THEN "KeyError" ELSE NoException, value |-> FALSE]
    ELSE LET remediation_status == Lower(xml_node.attrib.remediation_status)
         IN  [exc |-> NoException,
              value |-> \/ Contains(remediation_status, S_false_positive)
                        \/ Contains(remediation_status, S_falsepositive)]

\* false_positive of a SAST/DAST flaw
FlawFalsePositive(xml_node, is_mitigated) ==
    IF ~is_mitigated THEN [exc |-> NoException, value |-> FALSE]
    ELSE IF "remediation_status" \notin DOMAIN xml_node.attrib
         THEN [exc |-> "KeyError", value |-> FALSE]
         ELSE LET remediation_status == Lower(xml_node.attrib.remediation_status)
              IN  [exc |-> NoException,
                   value |-> \/ Contains(remediation_status, S_false_positive)
                             \/ Contains(remediation_status, S_falsepositive)]

\* (variant) every finding is imported active
Active_Always(is_mitigated) ==
    TRUE

\* finding.active
Active(is_mitigated) ==
    ~is_mitigated

XmlFlawToFinding(app, xml_node, mitigation, test_, use_first_seen) ==
    LET m   == FlawMitigation(xml_node)
        fp  == FlawFalsePositive(xml_node, m.is_mitigated)
        err == FirstException(<<
                   KeyError(xml_node, "issueid"),
                   IntAttribError(xml_node, "severity"),
                   IntAttribError(xml_node, "cweid"),
                   KeyError(xml_node, "categoryname"),
                   KeyError(xml_node, "cia_impact"),
                   KeyError(xml_node, "description"),
                   KeyError(xml_node, "module"),
                   KeyError(xml_node, "type"),
                   m.exc,
                   IF m.exc = NoException THEN fp.exc ELSE NoException >>)
        description == FlawDescription(xml_node)
    IN  IF err # NoException THEN [exc |-> err, finding |-> FindingDefaults]
        ELSE [exc |-> NoException,
              finding |->
                [FindingDefaults EXCEPT
                   !.test = test_,
                   !.mitigation = mitigation,
                   !.static_finding = TRUE,
                   !.dynamic_finding = FALSE,
                   !.unique_id_from_tool = XmlFlawToUniqueId(app, xml_node),
                   !.severity = XmlFlawToSeverity(xml_node),
                   !.cwe = <<IntOf(xml_node.attrib.cweid).value>>,
                   !.description = description,
                   !.references = FlawReferences(description) \o ReferencesTrailer(xml_node),
                   !.date = FlawDate(xml_node, test_, use_first_seen, FindingDefaults.date),
                   !.is_mitigated = m.is_mitigated,
                   !.mitigated = m.mitigated_date,
                   !.active = Active(m.is_mitigated),
                   !.false_p = fp.value]]

\* str.isdigit() for the attribute values of the explored documents
IsDigit(s) ==
    IntOf(s).ok

XmlStaticFlawToFinding(app, xml_node, mitigation, test_, use_first_seen) ==
    LET base == XmlFlawToFinding(app, xml_node, mitigation, test_, use_first_seen)
        a    == xml_node.attrib
        err  == FirstException(<<
                    base.exc,
                    KeyError(xml_node, "line"),
                    KeyError(xml_node, "functionrelativelocation"),
                    \* sourcefilepath + source_file with either one None
                    IF {"sourcefile", "sourcefilepath"} \subseteq DOMAIN a
                    THEN NoException ELSE "TypeError" >>)
    IN  IF err # NoException THEN [exc |-> err, finding |-> FindingDefaults]
        ELSE [exc |-> NoException,
              finding |->
                [base.finding EXCEPT
                   !.static_finding = TRUE,
                   !.dynamic_finding = FALSE,
                   !.line = IF IsDigit(a.line) /\ IsDigit(a.functionrelativelocation)
                            THEN <<IntOf(a.line).value
                                   + IntOf(a.functionrelativelocation).value>>
                            ELSE @,
                   !.file_path = <<a.sourcefilepath, a.sourcefile>>,
                   !.unsaved_tags = <<"sast">>]]

XmlDynamicFlawToFinding(app, xml_node, mitigation, test_, use_first_seen) ==
    LET base == XmlFlawToFinding(app, xml_node, mitigation, test_, use_first_seen)
        url_host == IF "url" \in DOMAIN xml_node.attrib
                    THEN <<xml_node.attrib.url>> ELSE None
    IN  IF base.exc # NoException THEN base
        ELSE [exc |-> NoException,
              finding |->
                [base.finding EXCEPT
                   !.static_finding = FALSE,
                   !.dynamic_finding = TRUE,
                   !.unsaved_endpoints = <<url_host>>,
                   !.unsaved_tags = <<"dast">>]]

\* _get_cwe: the first CWE-<digits> of the cwe_id values of the explored documents
GetCwe(val) ==
    CASE val = "CWE-79" -> <<79>>
      [] val = "cwe-89 (Injection)" -> <<89>>
      [] OTHER -> None

\* float(s) raises ValueError unless s is a number
FloatError(xml_node, name) ==
    IF name \notin DOMAIN xml_node.attrib THEN "KeyError"
    ELSE IF xml_node.attrib[name] \in {"7.5", "9.8", "0"} THEN NoException
         ELSE "ValueError"

\* is_mitigated and mitigated_date of an SCA vulnerability
ScaMitigation(xml_node) ==
    IF /\ "mitigation" \in DOMAIN xml_node.attrib
       /\ Lower(xml_node.attrib.mitigation) = S_true
    THEN MitigationLoop(xml_node.mitigations, 1, NotMitigated)
    ELSE NotMitigated

XmlScaFlawToFinding(test_, date, vendor_, library_, version_, xml_node) ==
    LET m   == ScaMitigation(xml_node)
        a   == xml_node.attrib
        err == FirstException(<<
                   FloatError(xml_node, "cvss_score"),
                   IntAttribError(xml_node, "severity"),
                   KeyError(xml_node, "cve_id"),
                   KeyError(xml_node, "cwe_id"),
                   KeyError(xml_node, "cve_summary"),
                   m.exc >>)
    IN  IF err # NoException THEN [exc |-> err, finding |-> FindingDefaults]
        ELSE [exc |-> NoException,
              finding |->
                [FindingDefaults EXCEPT
                   !.test = test_,
                   !.static_finding = TRUE,
                   !.dynamic_finding = FALSE,
                   !.severity = XmlFlawToSeverity(xml_node),
                   !.unsaved_vulnerability_ids = <<a.cve_id>>,
                   !.cwe = GetCwe(a.cwe_id),
                   !.component_name = <<library_>>,
                   !.component_version = <<version_>>,
                   !.date = date,
                   !.description =
                       << "This library has known vulnerabilities.\n**CVE:** ", a.cve_id,
                          "CVS Score: ", a.cvss_score, XmlFlawToSeverity(xml_node),
                          "Summary: \n>", a.cve_summary, "\n\n-----\n\n" >>,
                   !.unsaved_tags = <<"sca">>,
                   !.is_mitigated = m.is_mitigated,
                   !.mitigated = m.mitigated_date,
                   !.active = Active(m.is_mitigated)]]

-----------------------------------------------------------------------------
(* The dict dupes: its items in insertion order.  An item also remembers,  *)
(* as history, the document position of the node its value was built from. *)

DictHas(d, key) ==
    \E i \in 1..Len(d) : d[i].key = key

\* d[key] = value: a new key is appended, an existing key keeps its place
DictSet(d, key, value, pos) ==
    IF DictHas(d, key)
    THEN [i \in 1..Len(d) |->
            IF d[i].key = key THEN [key |-> key, value |-> value, node |-> pos] ELSE d[i]]
    ELSE Append(d, [key |-> key, value |-> value, node |-> pos])

\* list(d.values())
DictValues(d) ==
    [i \in 1..Len(d) |-> d[i].value]

\* str(uuid.uuid4()) of the n-th call (n counted from 0): a 122-bit random value,
\* taken to differ from every earlier one and from every issueid of the document
UuidStrings ==
    << "1b4e28ba-2fa1-41d2-883f-0016d3cca427", "6fa459ea-ee8a-4ca4-894e-db77e160355e",
       "886313e1-3b8a-4372-9b90-0c9aee199e5d", "a8098c1a-f86e-41a6-900c-192af3ba2e5c",
       "c2d9a6f0-53a8-4a4e-bd4b-6b1c0e7f2a11", "e902893a-9d22-4c7e-a7b8-d6e313b71d9f" >>

\* (variant) a key that is the same for every call
Uuid4_Fixed(n) ==
    UuidStrings[1]

Uuid4(n) ==
    UuidStrings[n + 1]

\* (variant) the key is taken from the line attribute
FlawDupeKey_ByLine(flaw_node) ==
    flaw_node.attrib.line

\* dupe_key = flaw_node.attrib["issueid"]
FlawDupeKey(flaw_node) ==
    flaw_node.attrib.issueid

\* (variant) every flaw node is converted and stored
NotSeen_Always(d, dupe_key) ==
    TRUE

\* if dupe_key not in dupes
NotSeen(d, dupe_key) ==
    ~DictHas(d, dupe_key)

-----------------------------------------------------------------------------
(* Tree searches of get_findings.                                          *)

\* root.findall("x:severity/x:category")
CategoryNodes ==
    report.categories

\* category_node.findall("x:cwe/x:staticflaws/x:flaw"), in document order
StaticFlawNodes(category_node) ==
    SelectSeq(category_node.flaws, LAMBDA f : f.container = "staticflaws")

\* category_node.findall("x:cwe/x:dynamicflaws/x:flaw"), in document order
DynamicFlawNodes(category_node) ==
    SelectSeq(category_node.flaws, LAMBDA f : f.container = "dynamicflaws")

\* category_node.findall("x:recommendations/x:para/x:bulletitem")
RECURSIVE BulletItems(_)
BulletItems(paras) ==
    IF paras = <<>> THEN <<>> ELSE Head(paras).bulletitems \o BulletItems(Tail(paras))

\* "".join(["    * " + x.get("text") + "\n" for x in ...])
RECURSIVE BulletList(_)
BulletList(items) ==
    IF items = <<>> THEN <<>>
    ELSE <<"    * ", Head(items).attrib.text, "\n">> \o BulletList(Tail(items))

\* root.findall("x:software_composition_analysis/x:vulnerable_components/x:component")
ComponentNodes ==
    report.components

-----------------------------------------------------------------------------
(* get_findings, one action per statement group.                           *)

\* (variant) an exception ends the loops and what was collected is returned
Raise_ReturnCollected(e) ==
    /\ pc' = "done"
    /\ exc' = exc
    /\ result' = DictValues(dupes)
    /\ UNCHANGED <<report, test, USE_FIRST_SEEN, ci, si, di, ki, vi, app_id,
                   report_date, mitigation_text, library, version, dupes, uuid_calls>>

\* an exception leaves get_findings: the caller gets exc and no list
Raise(e) ==
    /\ pc' = "failed"
    /\ exc' = e
    /\ result' = <<>>
    /\ UNCHANGED <<report, test, USE_FIRST_SEEN, ci, si, di, ki, vi, app_id,
                   report_date, mitigation_text, library, version, dupes, uuid_calls>>

\* ElementTree.parse(filename).getroot(), app_id, report_date, dupes = {}
ParseRoot ==
    /\ pc = "root"
    /\ UNCHANGED converted
    /\ IF ~report.wellformed THEN Raise("ParseError")
       ELSE IF "app_id" \notin DOMAIN report.attrib THEN Raise("KeyError")
       ELSE IF "last_update_time" \notin DOMAIN report.attrib THEN Raise("KeyError")
       ELSE LET parsed == StrpTime(report.attrib.last_update_time, DATE_FORMAT)
            IN  IF ~parsed.ok THEN Raise("ValueError")
                ELSE /\ app_id' = report.attrib.app_id
                     /\ report_date' = parsed.value
                     /\ dupes' = <<>>
                     /\ pc' = "category"
                     /\ ci' = 1
                     /\ UNCHANGED <<report, test, USE_FIRST_SEEN, si, di, ki, vi,
                                    mitigation_text, library, version, uuid_calls,
                                    exc, result>>

\* head of the category loop: the mitigation text of category_node
CategoryMitigationText ==
    /\ pc = "category"
    /\ ci <= Len(CategoryNodes)
    /\ UNCHANGED converted
    /\ LET category_node == CategoryNodes[ci]
           paras == category_node.paras
           items == BulletItems(paras)
       IN  IF paras = <<>> THEN Raise("AttributeError")       \* find() gave None
           ELSE IF "text" \notin DOMAIN Head(paras).attrib
                THEN Raise("TypeError")                        \* None + "\n\n"
           ELSE IF \E i \in 1..Len(items) : "text" \notin DOMAIN items[i].attrib
                THEN Raise("TypeError")                        \* "    * " + None
           ELSE /\ mitigation_text' =
                       <<Head(paras).attrib.text, "\n\n">> \o BulletList(items)
                /\ pc' = "flaws"
                /\ si' = 1
                /\ di' = 1
                /\ UNCHANGED <<report, test, USE_FIRST_SEEN, ci, ki, vi, app_id,
                               report_date, library, version, dupes, uuid_calls,
                               exc, result>>

\* body of either flaw loop for flaw_node, whose conversion (when it is called)
\* gives conv
FlawBody(flaw_node, conv) ==
    IF "issueid" \notin DOMAIN flaw_node.attrib
    THEN Raise("KeyError") /\ UNCHANGED converted
    ELSE LET dupe_key == FlawDupeKey(flaw_node)
         IN  IF NotSeen(dupes, dupe_key)
             THEN /\ converted' = converted \cup {flaw_node.pos}
                  /\ IF conv.exc # NoException THEN Raise(conv.exc)
                     ELSE /\ dupes' = DictSet(dupes, dupe_key, conv.finding,
                                              flaw_node.pos)
                          /\ UNCHANGED <<report, test, USE_FIRST_SEEN, pc, ci, ki, vi,
                                         app_id, report_date, mitigation_text,
                                         library, version, uuid_calls, exc, result>>
             ELSE UNCHANGED <<report, test, USE_FIRST_SEEN, pc, ci, ki, vi, app_id,
                              report_date, mitigation_text, library, version, dupes,
                              uuid_calls, converted, exc, result>>

\* one pass of the loop over the category's static flaws
StaticFlaw ==
    /\ pc = "flaws"
    /\ si <= Len(StaticFlawNodes(CategoryNodes[ci]))
    /\ LET flaw_node == StaticFlawNodes(CategoryNodes[ci])[si]
       IN  FlawBody(flaw_node,
                    XmlStaticFlawToFinding(app_id, flaw_node, mitigation_text, test,
                                           USE_FIRST_SEEN))
    /\ IF pc' = pc THEN si' = si + 1 /\ di' = di ELSE TRUE

\* one pass of the loop over the category's dynamic flaws
DynamicFlaw ==
    /\ pc = "flaws"
    /\ si > Len(StaticFlawNodes(CategoryNodes[ci]))
    /\ di <= Len(DynamicFlawNodes(CategoryNodes[ci]))
    /\ LET flaw_node == DynamicFlawNodes(CategoryNodes[ci])[di]
       IN  FlawBody(flaw_node,
                    XmlDynamicFlawToFinding(app_id, flaw_node, mitigation_text, test,
                                            USE_FIRST_SEEN))
    /\ IF pc' = pc THEN di' = di + 1 /\ si' = si ELSE TRUE

\* both flaw loops of the category are exhausted: next category_node
EndCategory ==
    /\ pc = "flaws"
    /\ si > Len(StaticFlawNodes(CategoryNodes[ci]))
    /\ di > Len(DynamicFlawNodes(CategoryNodes[ci]))
    /\ pc' = "category"
    /\ ci' = ci + 1
    /\ UNCHANGED <<report, test, USE_FIRST_SEEN, si, di, ki, vi, app_id, report_date,
                   mitigation_text, library, version, dupes, uuid_calls, converted,
                   exc, result>>

\* the category loop is exhausted: on to the SCA findings
EndCategories ==
    /\ pc = "category"
    /\ ci > Len(CategoryNodes)
    /\ pc' = "component"
    /\ ki' = 1
    /\ UNCHANGED <<report, test, USE_FIRST_SEEN, ci, si, di, vi, app_id, report_date,
                   mitigation_text, library, version, dupes, uuid_calls, converted,
                   exc, result>>

\* the library name of a component: the third field of a maven library_id, which is
\* held as its fields between the colons
ComponentLibrary(component) ==
    IF /\ "library_id" \in DOMAIN component.attrib
       /\ Len(component.attrib.library_id) >= 2
       /\ Head(component.attrib.library_id) = "maven"
       /\ Len(component.attrib.library_id) > 2
    THEN component.attrib.library_id[3]
    ELSE component.attrib.library

\* head of the component loop: library, vendor, version
Component ==
    /\ pc = "component"
    /\ ki <= Len(ComponentNodes)
    /\ UNCHANGED converted
    /\ LET component == ComponentNodes[ki]
           err == FirstException(<< KeyError(component, "library"),
                                    KeyError(component, "vendor"),
                                    KeyError(component, "version") >>)
       IN  IF err # NoException THEN Raise(err)
           ELSE /\ library' = ComponentLibrary(component)
                /\ version' = component.attrib.version
                /\ pc' = "vulnerabilities"
                /\ vi' = 1
                /\ UNCHANGED <<report, test, USE_FIRST_SEEN, ci, si, di, ki, app_id,
                               report_date, mitigation_text, dupes, uuid_calls,
                               exc, result>>

\* one pass of the loop over the component's vulnerabilities
Vulnerability ==
    /\ pc = "vulnerabilities"
    /\ vi <= Len(ComponentNodes[ki].vulnerabilities)
    /\ LET vulnerability == ComponentNodes[ki].vulnerabilities[vi]
           key  == Uuid4(uuid_calls)
           conv == XmlScaFlawToFinding(test, report_date,
                                       ComponentNodes[ki].attrib.vendor, library,
                                       version, vulnerability)
       IN  /\ converted' = converted \cup {vulnerability.pos}
           /\ IF conv.exc # NoException
              THEN Raise(conv.exc)   \* the call to uuid4 is lost with the frame
              ELSE /\ dupes' = DictSet(dupes, key, conv.finding, vulnerability.pos)
                   /\ uuid_calls' = uuid_calls + 1
                   /\ vi' = vi + 1
                   /\ UNCHANGED <<report, test, USE_FIRST_SEEN, pc, ci, si, di, ki,
                                  app_id, report_date, mitigation_text, library,
                                  version, exc, result>>

\* the component's vulnerabilities are exhausted: next component
EndComponent ==
    /\ pc = "vulnerabilities"
    /\ vi > Len(ComponentNodes[ki].vulnerabilities)
    /\ pc' = "component"
    /\ ki' = ki + 1
    /\ UNCHANGED <<report, test, USE_FIRST_SEEN, ci, si, di, vi, app_id, report_date,
                   mitigation_text, library, version, dupes, uuid_calls, converted,
                   exc, result>>

\* return list(dupes.values())
Return ==
    /\ pc = "component"
    /\ ki > Len(ComponentNodes)
    /\ pc' = "done"
    /\ result' = DictValues(dupes)
    /\ UNCHANGED <<report, test, USE_FIRST_SEEN, ci, si, di, ki, vi, app_id,
                   report_date, mitigation_text, library, version, dupes, uuid_calls,
                   converted, exc>>

Next ==
    \/ ParseRoot
    \/ CategoryMitigationText
    \/ StaticFlaw
    \/ DynamicFlaw
    \/ EndCategory
    \/ EndCategories
    \/ Component
    \/ Vulnerability
    \/ EndComponent
    \/ Return

-----------------------------------------------------------------------------
(* The explored inputs.  Three families of documents are run through the   *)
(* same get_findings: documents that vary in structure (Spec), single-node *)
(* documents that vary in the attributes the mitigation and date rules     *)
(* read (SpecAttributes), and documents that vary in the description text  *)
(* (SpecText).                                                             *)

V_Accepted ==
    <<"A", "c", "c", "e", "p", "t", "e", "d">>
V_ACCEPTED ==
    <<"A", "C", "C", "E", "P", "T", "E", "D">>
V_Rejected ==
    <<"R", "e", "j", "e", "c", "t", "e", "d">>
V_Fixed ==
    <<"F", "i", "x", "e", "d">>
V_FalsePositive ==
    <<"F", "a", "l", "s", "e", " ", "P", "o", "s", "i", "t", "i", "v", "e">>
V_PotentialFalsePositive ==
    <<"P", "o", "t", "e", "n", "t", "i", "a", "l", " ", "F", "a", "l", "s",
      "e", "P", "o", "s", "i", "t", "i", "v", "e">>
V_Open ==
    <<"O", "p", "e", "n">>
V_Reopened ==
    <<"R", "e", "o", "p", "e", "n", "e", "d">>
V_True ==
    <<"T", "r", "u", "e">>
V_false ==
    <<"f", "a", "l", "s", "e">>
D_Found ==
    <<"F", "o", "u", "n", "d", ".", " ">>
D_Confirmed ==
    <<"C", "o", "n", "f", "i", "r", "m", "e", "d", ".", " ">>
D_RefsHead ==
    <<"R", "e", "f", "e", "r", "e", "n", "c", "e", "s", ":", " ">>
D_CweId ==
    <<"(", "c", "w", "e", " ", "i", "d", ")", " ", " ">>
D_SeeOther ==
    <<"s", "e", "e", " ", "(", "o", "t", "h", "e", "r", ")", " ", " ">>
D_Plain ==
    <<"x", ".", "y">>
D_Example ==
    <<"F", "o", "u", "n", "d", ".", " ", "C", "o", "n", "f", "i", "r", "m",
      "e", "d", ".", " ", "R", "e", "f", "e", "r", "e", "n", "c", "e", "s",
      ":", " ", "(", "c", "w", "e", " ", "i", "d", ")", " ", " ", "s", "e",
      "e", " ", "(", "o", "t", "h", "e", "r", ")", " ", " ">>
D_ExampleSubstituted ==
    <<"F", "o", "u", "n", "d", ".", "\n", "C", "o", "n", "f", "i", "r", "m",
      "e", "d", ".", "\n", "R", "e", "f", "e", "r", "e", "n", "c", "e", "s",
      ":", " ", "(", "c", "w", "e", " ", "i", "d", ")", " ", " ", "s", "e",
      "e", " ", "(", "o", "t", "h", "e", "r", ")", " ", " ">>
D_ExampleClaimed ==
    <<"F", "o", "u", "n", "d", ".", "\n", "C", "o", "n", "f", "i", "r", "m",
      "e", "d", ".", "\n", "R", "e", "f", "e", "r", "e", "n", "c", "e", "s",
      ":", " ", "(", "c", "w", "e", " ", "i", "d", ")", "\n", " ", "s", "e",
      "e", " ", "(", "o", "t", "h", "e", "r", ")", "\n", " ">>
D_ExampleReferences ==
    <<"c", "w", "e", " ", "i", "d", ")", "\n", "s", "e", "e", " ", "(", "o",
      "t", "h", "e", "r", ")", "\n">>
D_Flaw ==
    <<"F", "l", "a", "w", ".">>

Test ==
    [target_start |-> <<2023, 6, 1, 0, 0, 0>>]

IssueIds ==
    {"101", "102"}

PosString ==
    <<"1", "2", "3", "4", "5">>

\* attrib without the attributes in names
Drop(attrib, names) ==
    [n \in (DOMAIN attrib) \ names |-> attrib[n]]

\* attrib with attribute name set to value
With(attrib, name, value) ==
    [n \in (DOMAIN attrib) \cup {name} |-> IF n = name THEN value ELSE attrib[n]]

\* a complete flaw node: the line attribute tells the nodes of a document apart
BaseFlawAttrib(pos, issueid) ==
    [ issueid |-> issueid, severity |-> "4", cweid |-> "89",
      categoryname |-> "SQL Injection", cia_impact |-> "ppn", description |-> D_Flaw,
      module |-> "app.war", type |-> "sql", line |-> PosString[pos],
      functionrelativelocation |-> "5", sourcefile |-> "Dao.java",
      sourcefilepath |-> "com/example/", url |-> "https://example.com/login" ]

BaseVulnAttrib ==
    [ cvss_score |-> "7.5", severity |-> "4", cve_id |-> "CVE-2021-44228",
      cwe_id |-> "CWE-79", cve_summary |-> "remote code execution" ]

BaseComponentAttrib(k) ==
    IF k = 1
    THEN [ library |-> "log4j-core-2.14.jar", vendor |-> "apache", version |-> "2.14",
           library_id |-> <<"maven", "org.apache.logging.log4j", "log4j-core", "2.14">> ]
    ELSE [ library |-> "left-pad", vendor |-> "npm", version |-> "1.0" ]

BasePara ==
    [ attrib |-> [text |-> "Validate all input."],
      bulletitems |-> << [attrib |-> [text |-> "Use prepared statements."]] >> ]

BaseRootAttrib ==
    [ app_id |-> "1337", last_update_time |-> "2023-11-02 10:30:00 UTC" ]

\* the subsets of S with at most k elements
RECURSIVE SubsetsUpTo(_, _)
SubsetsUpTo(S, k) ==
    IF k = 0 THEN {{}}
    ELSE LET smaller == SubsetsUpTo(S, k - 1)
         IN  smaller \cup {A \cup {x} : A \in smaller, x \in S}

\* Documents defects at most.
MaxDefects ==
    1

FlawShapes ==
    [container : {"staticflaws", "dynamicflaws"}, issueid : IssueIds]

\* the places where a document of the structural family can be defective
DefectSites(n, m) ==
    {[kind |-> "root", idx |-> 0, attr |-> a] :
        a \in {"wellformed", "app_id", "last_update_time"}}
    \cup {[kind |-> "category", idx |-> c, attr |-> "para"] : c \in 1..2}
    \cup {[kind |-> "flaw", idx |-> i, attr |-> a] : i \in 1..n, a \in {"issueid", "module"}}
    \cup {[kind |-> "component", idx |-> k, attr |-> "version"] : k \in 1..2}
    \cup {[kind |-> "vulnerability", idx |-> j, attr |-> "cve_id"] : j \in 1..m}

Defective(defects, kind, idx) ==
    {s.attr : s \in {t \in defects : t.kind = kind /\ t.idx = idx}}

\* a document of two categories and two components: flaws 1..split in the first
\* category and the rest in the second, vulnerabilities 1..csplit in the first
\* component and the rest in the second; document positions count the flaws, then
\* the vulnerabilities
StructuredReport(shapes, split, m, csplit, defects) ==
    LET n == Len(shapes)
        flaw(i) == [ pos |-> i, container |-> shapes[i].container,
                     attrib |-> Drop(BaseFlawAttrib(i, shapes[i].issueid),
                                     Defective(defects, "flaw", i)),
                     mitigations |-> <<>> ]
        vuln(j) == [ pos |-> n + j,
                     attrib |-> Drop(BaseVulnAttrib,
                                     Defective(defects, "vulnerability", j)),
                     mitigations |-> <<>> ]
        category(c, from, to) ==
            [ paras |-> IF Defective(defects, "category", c) = {} THEN <<BasePara>>
                        ELSE <<>>,
              flaws |-> [i \in 1..(to - from + 1) |-> flaw(from + i - 1)] ]
        component(k, from, to) ==
            [ attrib |-> Drop(BaseComponentAttrib(k), Defective(defects, "component", k)),
              vulnerabilities |-> [j \in 1..(to - from + 1) |-> vuln(from + j - 1)] ]
        rootdefects == Defective(defects, "root", 0)
    IN  [ wellformed |-> "wellformed" \notin rootdefects,
          attrib |-> IF "last_update_time" \in rootdefects
                     THEN With(Drop(BaseRootAttrib, rootdefects),
                               "last_update_time", "2023-11-02T10:30:00Z")
                     ELSE Drop(BaseRootAttrib, rootdefects),
          categories |-> <<category(1, 1, split), category(2, split + 1, n)>>,
          components |-> <<component(1, 1, csplit), component(2, csplit + 1, m)>> ]

\* the state get_findings starts in
Start(r, t, first_seen) ==
    /\ report = r
    /\ test = t
    /\ USE_FIRST_SEEN = first_seen
    /\ pc = "root"
    /\ ci = 0 /\ si = 0 /\ di = 0 /\ ki = 0 /\ vi = 0
    /\ app_id = "" /\ report_date = None /\ mitigation_text = None
    /\ library = "" /\ version = ""
    /\ dupes = <<>>
    /\ uuid_calls = 0
    /\ converted = {}
    /\ exc = NoException
    /\ result = <<>>

Init ==
    \E n \in 0..MaxNodes :
      \E m \in 0..(MaxNodes - n) :
        \E shapes \in [1..n -> FlawShapes], split \in 0..n, csplit \in 0..m,
           defects \in SubsetsUpTo(DefectSites(n, m), MaxDefects) :
          Start(StructuredReport(shapes, split, m, csplit, defects), Test, FALSE)

Spec ==
    Init /\ [][Next]_vars

-----------------------------------------------------------------------------
(* Single-node documents that vary in the attributes read by the date and  *)
(* mitigation rules.                                                       *)

\* an optional value: <<>> (absent) or <<v>>
Optional(values) ==
    {<<>>} \cup {<<v>> : v \in values}

\* attrib with the optional attribute name
WithOptional(attrib, name, opt) ==
    IF opt = <<>> THEN attrib ELSE With(attrib, name, opt[1])

MitigationStatusValues ==
    {S_accepted, V_Accepted, V_ACCEPTED, V_Rejected}

RemediationStatusValues ==
    {S_fixed, V_Fixed, V_FalsePositive, V_PotentialFalsePositive, V_Open, V_Reopened}

ScaMitigationValues ==
    {S_true, V_True, V_false}

\* values of date_first_occurrence: two that match DATE_FORMAT, one that does not, ""
FirstOccurrenceValues ==
    {"2022-03-09 23:59:59 GMT", "2022-03-09", ""}

LastOccurrenceValues ==
    {"2023-11-02 10:30:00 UTC", "02.11.2023 10:30"}

\* a mitigation-history child: with a date that parses, with one that does not,
\* without a date
MitigationNodes ==
    { [attrib |-> [date |-> "2024-01-15 00:00:00 UTC", action |-> "comment"]],
      [attrib |-> [date |-> "2022-03-09 23:59:59 GMT", action |-> "comment"]],
      [attrib |-> [date |-> "2024-01-15", action |-> "comment"]],
      [attrib |-> [action |-> "comment"]] }

MitigationLists ==
    UNION {[1..n -> MitigationNodes] : n \in 0..MaxMitigations}

EmptyRoot ==
    [ wellformed |-> TRUE, attrib |-> BaseRootAttrib, categories |-> <<>>,
      components |-> <<>> ]

\* a document whose only node is flaw_node
FlawReport(flaw_node) ==
    [EmptyRoot EXCEPT !.categories = <<[paras |-> <<BasePara>>, flaws |-> <<flaw_node>>]>>]

\* a document whose only node is vulnerability
VulnerabilityReport(vulnerability) ==
    [EmptyRoot EXCEPT !.components =
        <<[attrib |-> BaseComponentAttrib(1), vulnerabilities |-> <<vulnerability>>]>>]

\* the only flaw node of a document of this family
AttributeFlawNode(container, ms, rs, first, last, mitigations) ==
    [ pos |-> 1, container |-> container,
      attrib |-> WithOptional(WithOptional(WithOptional(WithOptional(
                     BaseFlawAttrib(1, "101"),
                     "mitigation_status", ms), "remediation_status", rs),
                     "date_first_occurrence", first), "date_last_occurrence", last),
      mitigations |-> mitigations ]

\* the only vulnerability node of a document of this family
AttributeVulnerabilityNode(mitigation, mitigations) ==
    [ pos |-> 1, attrib |-> WithOptional(BaseVulnAttrib, "mitigation", mitigation),
      mitigations |-> mitigations ]

InitAttributes ==
    \E first_seen \in BOOLEAN, mitigations \in MitigationLists :
        \/ \E container \in {"staticflaws", "dynamicflaws"},
              ms \in Optional(MitigationStatusValues),
              rs \in Optional(RemediationStatusValues),
              first \in Optional(FirstOccurrenceValues),
              last \in Optional(LastOccurrenceValues) :
                Start(FlawReport(AttributeFlawNode(container, ms, rs, first, last,
                                                   mitigations)),
                      Test, first_seen)
        \/ \E mitigation \in Optional(ScaMitigationValues) :
                Start(VulnerabilityReport(AttributeVulnerabilityNode(mitigation,
                                                                     mitigations)),
                      Test, first_seen)

SpecAttributes ==
    InitAttributes /\ [][Next]_vars

-----------------------------------------------------------------------------
(* Documents of one flaw and one vulnerability that vary in the flaw's     *)
(* description.                                                            *)

DescriptionChunks ==
    {D_Found, D_Confirmed, D_RefsHead, D_CweId, D_SeeOther, D_Plain}

RECURSIVE Concat(_)
Concat(chunks) ==
    IF chunks = <<>> THEN <<>> ELSE Head(chunks) \o Concat(Tail(chunks))

Descriptions ==
    {D_Example}
    \cup UNION { {Concat(chunks) : chunks \in [1..n -> DescriptionChunks]} : n \in 0..MaxChunks }

\* a document of one flaw with the given description, and one vulnerability
TextReport(container, description) ==
    [ FlawReport([ pos |-> 1, container |-> container,
                   attrib |-> With(BaseFlawAttrib(1, "101"), "description", description),
                   mitigations |-> <<>> ])
      EXCEPT !.components =
          << [ attrib |-> BaseComponentAttrib(2),
               vulnerabilities |-> << [ pos |-> 2, attrib |-> BaseVulnAttrib,
                                        mitigations |-> <<>> ] >> ] >> ]

InitText ==
    \E container \in {"staticflaws", "dynamicflaws"}, description \in Descriptions :
        Start(TextReport(container, description), Test, FALSE)

SpecText ==
    InitText /\ [][Next]_vars

-----------------------------------------------------------------------------
(* What the claims speak about.                                            *)

RECURSIVE FlattenFlaws(_)
\* the flaw nodes of the categories, in document order
FlattenFlaws(categories) ==
    IF categories = <<>> THEN <<>>
    ELSE Head(categories).flaws \o FlattenFlaws(Tail(categories))

RECURSIVE VisitOrder(_)
\* the flaw nodes in the order the two loops of get_findings reach them
VisitOrder(categories) ==
    IF categories = <<>> THEN <<>>
    ELSE StaticFlawNodes(Head(categories)) \o DynamicFlawNodes(Head(categories))
         \o VisitOrder(Tail(categories))

RECURSIVE FlattenVulnerabilities(_)
FlattenVulnerabilities(components) ==
    IF components = <<>> THEN <<>>
    ELSE Head(components).vulnerabilities \o FlattenVulnerabilities(Tail(components))

FlawNodes ==
    FlattenFlaws(report.categories)

VulnerabilityNodes ==
    FlattenVulnerabilities(report.components)

Range(s) ==
    {s[i] : i \in 1..Len(s)}

\* the issueid values that occur among the report's flaw nodes
ReportIssueIds ==
    {f.attrib.issueid : f \in {g \in Range(FlawNodes) : "issueid" \in DOMAIN g.attrib}}

\* document positions of the flaw nodes that carry issueid v
PositionsOf(v) ==
    {f.pos : f \in {g \in Range(FlawNodes) :
                       "issueid" \in DOMAIN g.attrib /\ g.attrib.issueid = v}}

IsFlawRecord(finding) ==
    finding.unsaved_tags \in {<<"sast">>, <<"dast">>}

IsScaRecord(finding) ==
    finding.unsaved_tags = <<"sca">>

\* the records of list l built for issueid v
RecordsFor(l, v) ==
    {i \in 1..Len(l) : IsFlawRecord(l[i]) /\ l[i].unique_id_from_tool[4] = v}

Returned ==
    pc = "done"

\* C1: a returned list holds exactly one SAST/DAST record for every issueid value
\* that occurs among the report's flaw nodes, and no other SAST/DAST record,
\* whatever the other attributes of the nodes that share an issueid are.
C1_OneRecordPerIssueId ==
    Returned =>
        /\ \A v \in ReportIssueIds : Cardinality(RecordsFor(result, v)) = 1
        /\ Cardinality({i \in 1..Len(result) : IsFlawRecord(result[i])})
             = Cardinality(ReportIssueIds)

\* three flaw nodes, not all of one kind and each with its own line, share one
\* issueid and one record came out
C1_Witness ==
    /\ Returned
    /\ \E v \in ReportIssueIds :
          /\ Cardinality(PositionsOf(v)) >= 3
          /\ \E f, g \in Range(FlawNodes) :
                /\ f.attrib.issueid = v /\ g.attrib.issueid = v
                /\ f.container # g.container /\ f.attrib.line # g.attrib.line
          /\ Cardinality(RecordsFor(result, v)) = 1

\* the first position, in sequence order, of a node with issueid v
FirstWith(order, v) ==
    LET hits == {i \in 1..Len(order) :
                    "issueid" \in DOMAIN order[i].attrib /\ order[i].attrib.issueid = v}
    IN  order[CHOOSE i \in hits : \A j \in hits : i <= j].pos

FlawItems ==
    {i \in 1..Len(dupes) : IsFlawRecord(dupes[i].value)}

FlawPositions ==
    {f.pos : f \in Range(FlawNodes)}

\* C2 as claimed: the record kept for an issueid is built from the node that comes
\* first in the document.
C2_FirstInDocument ==
    \A i \in FlawItems :
        dupes[i].node = FirstWith(FlawNodes, dupes[i].key)

\* C2: the record kept for an issueid is built from the node that get_findings
\* visits first (categories in document order; within a category the static flaws
\* in document order, then the dynamic flaws in document order), and no other node
\* with that issueid is ever converted.
C2_FirstVisited ==
    /\ \A i \in FlawItems :
          dupes[i].node = FirstWith(VisitOrder(report.categories), dupes[i].key)
    /\ \A p \in converted \cap FlawPositions :
          \E v \in ReportIssueIds : p = FirstWith(VisitOrder(report.categories), v)

\* in one category a dynamic flaw precedes a static flaw with its issueid: the
\* record returned is the static flaw's, and the dynamic flaw was not converted
C2_Witness ==
    /\ Returned
    /\ \E c \in 1..Len(report.categories) :
         \E a, b \in 1..Len(report.categories[c].flaws) :
            LET first == report.categories[c].flaws[a]
                later == report.categories[c].flaws[b]
            IN  /\ a < b
                /\ first.container = "dynamicflaws" /\ later.container = "staticflaws"
                /\ first.attrib.issueid = later.attrib.issueid
                /\ later.pos \in converted /\ first.pos \notin converted
                /\ \E i \in RecordsFor(result, later.attrib.issueid) :
                      result[i].static_finding /\ result[i].unsaved_tags = <<"sast">>

ScaItems ==
    {i \in 1..Len(dupes) : IsScaRecord(dupes[i].value)}

\* C3: a returned list holds one SCA record for every vulnerability node, each
\* built from its own node, and the SCA records take the place of no SAST/DAST
\* record.
C3_EveryVulnerabilityItsRecord ==
    Returned =>
        /\ Cardinality({i \in 1..Len(result) : IsScaRecord(result[i])})
             = Len(VulnerabilityNodes)
        /\ \A j \in 1..Len(VulnerabilityNodes) :
              Cardinality({i \in ScaItems : dupes[i].node = VulnerabilityNodes[j].pos}) = 1
        /\ \A i \in ScaItems : dupes[i].key \notin ReportIssueIds
        /\ \A v \in ReportIssueIds : RecordsFor(result, v) # {}
        /\ Len(result) = Cardinality(ReportIssueIds) + Len(VulnerabilityNodes)

\* two vulnerability nodes with the same attributes under one component, beside a
\* flaw: three records
C3_Witness ==
    /\ Returned
    /\ \E k \in 1..Len(report.components) :
          /\ Len(report.components[k].vulnerabilities) = 2
          /\ report.components[k].vulnerabilities[1].attrib
               = report.components[k].vulnerabilities[2].attrib
    /\ ReportIssueIds # {}
    /\ Cardinality({i \in 1..Len(result) : IsScaRecord(result[i])}) = 2
    /\ Cardinality({i \in 1..Len(result) : IsFlawRecord(result[i])}) = 1

\* a flaw node that is converted needs these attributes
RequiredFlawAttributes ==
    {"issueid", "severity", "cweid", "categoryname", "cia_impact", "description",
     "module", "type"}

\* the document has a defect that the conversion must hit: an unreadable root, a
\* category without a recommendation paragraph, a first-visited flaw or a
\* vulnerability or a component without a required attribute
MustAbort ==
    \/ ~report.wellformed
    \/ ~({"app_id", "last_update_time"} \subseteq DOMAIN report.attrib)
    \/ \E c \in 1..Len(report.categories) : report.categories[c].paras = <<>>
    \/ \E f \in Range(FlawNodes) : "issueid" \notin DOMAIN f.attrib
    \/ \E f \in Range(FlawNodes) :
          /\ "issueid" \in DOMAIN f.attrib
          /\ f.pos = FirstWith(VisitOrder(report.categories), f.attrib.issueid)
          /\ ~(RequiredFlawAttributes \subseteq DOMAIN f.attrib)
    \/ \E k \in 1..Len(report.components) :
          ~({"library", "vendor", "version"} \subseteq DOMAIN report.components[k].attrib)
    \/ \E v \in Range(VulnerabilityNodes) :
          ~({"cvss_score", "severity", "cve_id", "cwe_id", "cve_summary"}
               \subseteq DOMAIN v.attrib)

\* C9: get_findings hands out a list only when it returns, and then the list is
\* complete (a record for every issueid and every vulnerability node); when it
\* raises, the caller gets no record, whatever had been built; and a document with
\* a missing required attribute or a category without a paragraph never returns.
C9_AllOrNothing ==
    /\ ~Returned => result = <<>>
    /\ pc = "failed" => exc # NoException
    /\ Returned =>
          /\ exc = NoException
          /\ Len(result) = Cardinality(ReportIssueIds) + Len(VulnerabilityNodes)
          /\ \A v \in ReportIssueIds : RecordsFor(result, v) # {}
          /\ \A f \in Range(FlawNodes) : "issueid" \in DOMAIN f.attrib
    /\ MustAbort => ~Returned

\* a flaw without its module attribute aborts a conversion that had already built
\* a record from an earlier node
C9_Witness ==
    /\ pc = "failed"
    /\ exc = "KeyError"
    /\ Len(dupes) >= 1
    /\ result = <<>>
    /\ \E f \in Range(FlawNodes) : f.pos \in converted /\ "module" \notin DOMAIN f.attrib

-----------------------------------------------------------------------------
(* Claims about one record, on the single-node documents.                  *)

\* the only flaw node of the document, where it has one
HasOneFlaw ==
    Len(FlawNodes) = 1

TheFlaw ==
    FlawNodes[1]

\* the record returned for the only node of the document
TheRecord ==
    result[1]

\* C4: every record returned has active = not is_mitigated.
C4_ActiveIffNotMitigated ==
    /\ \A i \in 1..Len(result) : result[i].active = ~result[i].is_mitigated
    /\ \A i \in 1..Len(dupes) : dupes[i].value.active = ~dupes[i].value.is_mitigated

\* a mitigated SCA record came out inactive
C4_Witness ==
    /\ Returned
    /\ Len(result) = 1
    /\ IsScaRecord(TheRecord)
    /\ TheRecord.is_mitigated /\ ~TheRecord.active
    /\ TheRecord.mitigated # None

\* the spellings, among the explored values, that lower() maps to the literals
AcceptedSpellings ==
    {S_accepted, V_Accepted, V_ACCEPTED}

FixedSpellings ==
    {S_fixed, V_Fixed}

FalsePositiveSpellings ==
    {V_FalsePositive, V_PotentialFalsePositive}

Has(node, name) ==
    name \in DOMAIN node.attrib

\* C5: false_p only on mitigated records; a flaw whose remediation_status names a
\* false positive but which is not mitigated has false_p = false; SCA records
\* have false_p = false.
C5_FalsePositiveOnlyIfMitigated ==
    /\ \A i \in 1..Len(result) : result[i].false_p => result[i].is_mitigated
    /\ \A i \in 1..Len(result) : IsScaRecord(result[i]) => ~result[i].false_p
    /\ ( /\ Returned /\ HasOneFlaw
         /\ Has(TheFlaw, "remediation_status")
         /\ TheFlaw.attrib.remediation_status \in FalsePositiveSpellings
         /\ ~TheRecord.is_mitigated )
          => ~TheRecord.false_p

\* an accepted flaw marked "False Positive" without any mitigation-history child:
\* not mitigated, so not a false positive
C5_Witness ==
    /\ Returned /\ HasOneFlaw
    /\ Has(TheFlaw, "mitigation_status")
    /\ TheFlaw.attrib.mitigation_status \in AcceptedSpellings
    /\ Has(TheFlaw, "remediation_status")
    /\ TheFlaw.attrib.remediation_status \in FalsePositiveSpellings
    /\ TheFlaw.mitigations = <<>>
    /\ ~TheRecord.is_mitigated /\ ~TheRecord.false_p

\* the attribute the date is taken from
SelectedDateAttribute ==
    IF USE_FIRST_SEEN THEN "date_first_occurrence" ELSE "date_last_occurrence"

\* C6 as claimed: the record's date is the parsed selected attribute, and the
\* scan-run start time when that attribute is absent or does not parse.
C6_DateOrTargetStart ==
    (Returned /\ HasOneFlaw) =>
        TheRecord.date =
            IF /\ Has(TheFlaw, SelectedDateAttribute)
               /\ StrpTime(TheFlaw.attrib[SelectedDateAttribute], DATE_FORMAT).ok
            THEN StrpTime(TheFlaw.attrib[SelectedDateAttribute], DATE_FORMAT).value
            ELSE test.target_start

\* C6 where the selected attribute is present and not empty: the date is the
\* parsed attribute, or the scan-run start time when it does not parse.
C6_PresentAttribute ==
    (Returned /\ HasOneFlaw /\ Has(TheFlaw, SelectedDateAttribute)) =>
        (TheFlaw.attrib[SelectedDateAttribute] # "" =>
            TheRecord.date =
                IF StrpTime(TheFlaw.attrib[SelectedDateAttribute], DATE_FORMAT).ok
                THEN StrpTime(TheFlaw.attrib[SelectedDateAttribute], DATE_FORMAT).value
                ELSE test.target_start)

\* C6 where the selected attribute is absent or empty: the parser assigns no date,
\* the record keeps the date Finding() gave it.
C6_AbsentAttribute ==
    (Returned /\ HasOneFlaw) =>
        ((~Has(TheFlaw, SelectedDateAttribute)
          \/ TheFlaw.attrib[SelectedDateAttribute] = "") =>
            TheRecord.date = FindingDefaults.date)

\* C7: an accepted and fixed flaw is converted to a record that is mitigated
\* without a date, not a false positive and inactive, whatever its children; a
\* flaw that is not accepted is converted to a record that is not mitigated, has
\* no date of mitigation, is not a false positive and is active.
C7_AcceptedFixedOrNotAccepted ==
    HasOneFlaw =>
        LET accepted == /\ Has(TheFlaw, "mitigation_status")
                        /\ TheFlaw.attrib.mitigation_status \in AcceptedSpellings
            fixed    == /\ Has(TheFlaw, "remediation_status")
                        /\ TheFlaw.attrib.remediation_status \in FixedSpellings
        IN  /\ (accepted /\ fixed) \/ ~accepted => pc # "failed"
            /\ (Returned /\ accepted /\ fixed) =>
                  /\ TheRecord.is_mitigated /\ TheRecord.mitigated = None
                  /\ ~TheRecord.false_p /\ ~TheRecord.active
            /\ (Returned /\ ~accepted) =>
                  /\ ~TheRecord.is_mitigated /\ TheRecord.mitigated = None
                  /\ ~TheRecord.false_p /\ TheRecord.active

\* "Accepted" and "Fixed" with two mitigation-history children, one of them with a
\* date that does not parse: mitigated, no date
C7_Witness ==
    /\ Returned /\ HasOneFlaw
    /\ Has(TheFlaw, "mitigation_status") /\ TheFlaw.attrib.mitigation_status = V_Accepted
    /\ Has(TheFlaw, "remediation_status") /\ TheFlaw.attrib.remediation_status = V_Fixed
    /\ Len(TheFlaw.mitigations) = 2
    /\ "date" \notin DOMAIN TheFlaw.mitigations[1].attrib
    /\ TheRecord.is_mitigated /\ TheRecord.mitigated = None /\ ~TheRecord.active

\* C8: the record of an accepted flaw that is not fixed is not mitigated and has no
\* date of mitigation when the flaw has no mitigation-history child; with children
\* it is mitigated at the date of the last child, and it is a false positive
\* exactly when the remediation_status names one.
C8_ResolvedFromChildren ==
    (Returned /\ HasOneFlaw) =>
        LET accepted == /\ Has(TheFlaw, "mitigation_status")
                        /\ TheFlaw.attrib.mitigation_status \in AcceptedSpellings
            fixed    == /\ Has(TheFlaw, "remediation_status")
                        /\ TheFlaw.attrib.remediation_status \in FixedSpellings
            children == TheFlaw.mitigations
        IN  (accepted /\ ~fixed) =>
               IF children = <<>>
               THEN ~TheRecord.is_mitigated /\ TheRecord.mitigated = None
               ELSE /\ TheRecord.is_mitigated
                    /\ children[Len(children)].attrib.date \in
                          {"2024-01-15 00:00:00 UTC", "2022-03-09 23:59:59 GMT"}
                    /\ TheRecord.mitigated =
                          IF children[Len(children)].attrib.date = "2024-01-15 00:00:00 UTC"
                          THEN <<2024, 1, 15, 0, 0, 0>> ELSE <<2022, 3, 9, 23, 59, 59>>
                    /\ TheRecord.false_p =
                          (TheFlaw.attrib.remediation_status \in FalsePositiveSpellings)

\* "Accepted", "False Positive", two children with different dates: mitigated at
\* the second child's date, a false positive
C8_Witness ==
    /\ Returned /\ HasOneFlaw
    /\ Has(TheFlaw, "mitigation_status") /\ TheFlaw.attrib.mitigation_status = V_Accepted
    /\ Has(TheFlaw, "remediation_status")
    /\ TheFlaw.attrib.remediation_status = V_FalsePositive
    /\ Len(TheFlaw.mitigations) = 2
    /\ TheFlaw.mitigations[1].attrib.date = "2022-03-09 23:59:59 GMT"
    /\ TheFlaw.mitigations[2].attrib.date = "2024-01-15 00:00:00 UTC"
    /\ TheRecord.is_mitigated /\ TheRecord.false_p
    /\ TheRecord.mitigated = <<2024, 1, 15, 0, 0, 0>>

-----------------------------------------------------------------------------
(* The description and the references of a flaw record.                    *)

\* the flaw record of a returned list of the text documents
FlawRecord ==
    result[1]

\* the references without the six pieces of the trailer
ReferencesText(finding) ==
    SubSeq(finding.references, 1, Len(finding.references) - 6)

\* C10 as claimed: the description of the example comes out with the close-paren
\* runs rewritten as well.
C10_ExampleAsClaimed ==
    (Returned /\ HasOneFlaw /\ TheFlaw.attrib.description = D_Example) =>
        FlawRecord.description = D_ExampleClaimed

\* the 1-based places where sub occurs in s
Occurrences(s, sub) ==
    {i \in 1..(Len(s) - Len(sub) + 1) : SubSeq(s, i, i + Len(sub) - 1) = sub}

\* C10: the description is the attribute with the space of every period-space
\* turned into a newline and nothing else changed (the example gives
\* "Found.\nConfirmed.\nReferences: (cwe id)  see (other)  "); the references are
\* the description from 13 characters after the start of its first "References:"
\* on, with every close-paren-two-spaces turned into close-paren-newline (the
\* example gives "cwe id)\nsee (other)\n"), or "None" when the description has no
\* "References:"; the trailer of module, type and issue id follows.
C10_DescriptionAndReferences ==
    (Returned /\ HasOneFlaw) =>
        LET given == TheFlaw.attrib.description
            description == FlawRecord.description
            references == ReferencesText(FlawRecord)
            heads == Occurrences(description, S_References)
            first == CHOOSE i \in heads : \A j \in heads : i <= j
            rest == SubSeq(description, first + 13, Len(description))
        IN  /\ Len(description) = Len(given)
            /\ \A i \in 1..Len(given) :
                  description[i] =
                     IF i > 1 /\ given[i - 1] = "." /\ given[i] = " " THEN "\n"
                     ELSE given[i]
            /\ given = D_Example =>
                  /\ description = D_ExampleSubstituted
                  /\ references = D_ExampleReferences
            /\ heads = {} => references = S_None
            /\ heads # {} =>
                  /\ Occurrences(references, S_ParenTwoSpaces) = {}
                  /\ Replace(references, S_ParenNewline, S_ParenTwoSpaces) = rest
            /\ SubSeq(FlawRecord.references, Len(references) + 1,
                      Len(FlawRecord.references))
                 = << "\n\nVulnerable Module: ", TheFlaw.attrib.module, "\nType: ",
                      TheFlaw.attrib.type, "\nVeracode issue ID: ",
                      TheFlaw.attrib.issueid >>

\* the example description was converted
C10_Witness ==
    /\ Returned /\ HasOneFlaw
    /\ TheFlaw.attrib.description = D_Example
    /\ FlawRecord.description = D_ExampleSubstituted
    /\ ReferencesText(FlawRecord) = D_ExampleReferences

=============================================================================
